---- MODULE Spec2Model ----
(***************************************************************************)
(* Model of the ordered task-fetch pipeline of regnbue-bridge:             *)
(*   src/src/block_submitter/task_fetcher.rs  (TaskFetcher, SubmitBlockArgs)*)
(*   src/src/bin/tele_out.rs                  (the supervisor)             *)
(***************************************************************************)
EXTENDS Integers, Sequences, FiniteSets, TLC

\* ------------------------------------------------------------------ bounds
\* Block ids of the storage of specification Spec are 0..MaxBlock.
MaxBlock == 1
\* Capacity of the bounded crossbeam channel behind `tx` (set by its creator).
ChanCap == 2
\* Longest deposit array drawn as an input of the encoder (SpecEnc).
MaxDeposits == 3
MaxStops == 2

\* -------------------------------------------------------- program constants
\* The literal of the coalesce() default in the query of fetch_latest is
\* 9223372036854775807 (i64::MAX).  TLC's integers are 32 bits wide, so the
\* literal is represented by the largest value TLC has; every block id of the
\* model lies far below both.
I64_MAX == 2147483647
\* start_id.unwrap_or(-1)
NO_START == -1
\* u16: `as u16` keeps the value modulo 2^16; to_be_bytes splits at 2^8.
U16_MOD == 65536
U8_MOD == 256

\* ------------------------------------------------------- Option and Result
None == [some |-> FALSE]
Some(x) == [some |-> TRUE, v |-> x]
Ok(x) == [ok |-> TRUE, v |-> x]
Err(e) == [ok |-> FALSE, e |-> e]

\* ------------------------------------------------- serde_json::Value (aux)
JNull == [t |-> "null"]
JStr == [t |-> "str"]
\* A JSON number: k is serde_json's N variant, "pos" (PosInt, u64),
\* "neg" (NegInt, a negative i64) or "float".
JNum(k, n) == [t |-> "num", k |-> k, n |-> n]
JArr(s) == [t |-> "arr", a |-> s]
\* A JSON object is the function from its keys to their values.
JObj(m) == [t |-> "obj", m |-> m]

\* Value::get(key): Some only on an object that has the key.
get(val, key) ==
  IF val.t = "obj" /\ key \in DOMAIN val.m THEN Some(val.m[key]) ELSE None

\* Value::as_array
as_array(val) == IF val.t = "arr" THEN Some(val.a) ELSE None

\* Value::as_u64: Some only for a number stored as PosInt.
as_u64(val) == IF val.t = "num" /\ val.k = "pos" THEN Some(val.n) ELSE None

\* `x as u16`: a truncating cast, never an error.
as_u16(n) == n % U16_MOD

\* Variant of to_be_bytes: low byte first.
to_be_bytes_le(ni) == <<ni % U8_MOD, ni \div U8_MOD>>
\* u16::to_be_bytes: high byte first.
to_be_bytes(ni) == <<ni \div U8_MOD, ni % U8_MOD>>

\* serde_json::de::from_slice::<Vec<U256>>: the byte payloads of the model are
\* the JSON text "[\"0x1\"]", which parses to <<1>>, and text that does not
\* parse.
GoodPayload == "[\"0x1\"]"
BadPayload == "not json"
from_slice(bytes) ==
  IF bytes = GoodPayload THEN Ok(<<1>>) ELSE Err("deserialize")

\* The loop of lines 48-53: every element through as_u64, `as u16` and
\* to_be_bytes, appended in order; the first element that is no u64 ends it.
RECURSIVE encode_deposit(_)
encode_deposit(val_arr) ==
  IF val_arr = <<>> THEN Ok(<<>>)
  ELSE LET ni == as_u64(Head(val_arr))
       IN IF ~ni.some THEN Err("malform in deposit arr")
          ELSE LET rest == encode_deposit(Tail(val_arr))
               IN IF rest.ok
                    THEN Ok(to_be_bytes(as_u16(ni.v)) \o rest.v)
                    ELSE rest

\* Variant of deposit_aux: an absent document is an error.
deposit_aux_absent_err(aux_data) ==
  IF ~aux_data.some THEN Err("no aux data")
  ELSE LET f == get(aux_data.v, "deposit")
       IN IF ~f.some THEN Err("no deposit field")
          ELSE LET arr == as_array(f.v)
               IN IF ~arr.some THEN Err("malform in deposit")
                  ELSE encode_deposit(arr.v)
\* Variant of deposit_aux: a document without deposit field gives no bytes.
deposit_aux_no_field_ok(aux_data) ==
  IF ~aux_data.some THEN Ok(<<>>)
  ELSE LET f == get(aux_data.v, "deposit")
       IN IF ~f.some THEN Ok(<<>>)
          ELSE LET arr == as_array(f.v)
               IN IF ~arr.some THEN Err("malform in deposit")
                  ELSE encode_deposit(arr.v)
\* The match on t.aux_data, lines 40-56.
deposit_aux(aux_data) ==
  IF ~aux_data.some THEN Ok(<<>>)
  ELSE LET f == get(aux_data.v, "deposit")
       IN IF ~f.some THEN Err("no deposit field")
          ELSE LET arr == as_array(f.v)
               IN IF ~arr.some THEN Err("malform in deposit")
                  ELSE encode_deposit(arr.v)

\* impl TryFrom<Task> for SubmitBlockArgs.  U256::from(t.block_id) is the
\* identity on the non-negative ids the query returns.
try_from(t) ==
  LET public_inputs == from_slice(t.public_input)
      serialized_proof == from_slice(t.proof)
      dep == deposit_aux(t.aux_data)
  IN IF ~public_inputs.ok THEN public_inputs
     ELSE IF ~serialized_proof.ok THEN serialized_proof
     ELSE IF ~dep.ok THEN dep
     ELSE Ok([block_id |-> t.block_id,
              public_inputs |-> public_inputs.v,
              serialized_proof |-> serialized_proof.v,
              public_data |-> t.public_data,
              deposit_aux |-> dep.v])

\* ------------------------------------------------------------------- state
VARIABLES
  task,           \* table `task`: block_id -> [status, public_input, proof]
  l2_block,       \* table `l2block`: block_id -> [status, raw_public_data, public_data_aux]
  last_block_id,  \* TaskFetcher.last_block_id : Option<i64>
  tx,             \* the messages queued in the channel behind Sender `tx`
  rx_alive,       \* the channel's Receiver has not been dropped
  pc,             \* where TaskFetcher::run is: "tick", "begin", "fetch", "commit"
  candidate,      \* the Option<Task> the last query of fetch_latest returned
  outcome,        \* what the last run_inner returned (run logs its Err)
  sent,           \* the block ids of the calls try_send accepted, in order
  pre_cursor,     \* last_block_id as it was when the current cycle started
  received,       \* the block ids of the calls the submission actor took, in order
  open_tx,        \* the number of storage transactions of the fetch loop that are open
  main,           \* where main of tele_out is: "select", "panicked" or "exited"
  stop_signals,   \* the stop signals queued for stop_signal_receiver
  fetcher_done,   \* fetcher_task_handle has completed
  sender_done,    \* eth_sender_task_handle has completed
  early_return,   \* a task handle completed while no stop signal had been sent
  encIn,          \* SpecEnc: the Task given to try_from
  encOut          \* SpecEnc: what try_from returned for it

vars == <<task, l2_block, last_block_id, tx, rx_alive, pc, candidate, outcome,
          sent, pre_cursor, received, open_tx, main, stop_signals, fetcher_done,
          sender_done, early_return, encIn, encOut>>

\* ----------------------------------------------------------------- storage
Ids == 0..MaxBlock

\* The rows a block can have.  A task row carries public_input and proof, an
\* l2block row carries raw_public_data and public_data_aux.
AuxAbsent == None
AuxDeposits == Some(JObj([deposit |-> JArr(<<JNum("pos", 1), JNum("pos", 65535), JNum("pos", 0)>>)]))
AuxTooBig == Some(JObj([deposit |-> JArr(<<JNum("pos", 70000)>>)]))
AuxNoField == Some(JObj([other |-> JNull]))

PlainData == [public_input |-> GoodPayload, proof |-> GoodPayload, aux |-> AuxAbsent]
RowData ==
  { PlainData,
    [public_input |-> GoodPayload, proof |-> GoodPayload, aux |-> AuxDeposits],
    [public_input |-> GoodPayload, proof |-> GoodPayload, aux |-> AuxTooBig],
    [public_input |-> GoodPayload, proof |-> GoodPayload, aux |-> AuxNoField],
    [public_input |-> GoodPayload, proof |-> BadPayload, aux |-> AuxAbsent] }

TaskRow(st, d) == [status |-> st, public_input |-> d.public_input, proof |-> d.proof]
BlockRow(st, d) == [status |-> st, raw_public_data |-> "pd", public_data_aux |-> d.aux]

\* ------------------------------------------------------ the query (97-125)
\* Variant of ceiling: the coalesce() default whatever the rows.
ceiling_unbounded(task_tbl) == I64_MAX
\* The sub-select of lines 111-115: the smallest block_id of the task rows
\* whose status is not 'proved', or the coalesce() default.
ceiling(task_tbl) ==
  LET pending == {b \in DOMAIN task_tbl : task_tbl[b].status \notin {"none", "proved"}}
  IN IF pending = {} THEN I64_MAX
     ELSE CHOOSE b \in pending : \A c \in pending : b <= c

\* The where clause of lines 111-118 over the inner join of lines 108-110.
qualifies(b, start, task_tbl, l2b_tbl) ==
  /\ task_tbl[b].status # "none"
  /\ b \in DOMAIN l2b_tbl
  /\ l2b_tbl[b].status # "none"
  /\ b < ceiling(task_tbl)
  /\ b > start
  /\ task_tbl[b].status = "proved"
  /\ l2b_tbl[b].status = "uncommited"

\* start_id.unwrap_or(-1)
unwrap_or(opt, dflt) == IF opt.some THEN opt.v ELSE dflt

\* Variant of fetch_latest_row: `t.block_id >= $1`.
fetch_latest_row_ge(start_id, task_tbl, l2b_tbl) ==
  LET start == unwrap_or(start_id, NO_START) - 1
      rows == {b \in DOMAIN task_tbl : qualifies(b, start, task_tbl, l2b_tbl)}
  IN IF rows = {} THEN None
     ELSE LET b == CHOOSE r \in rows : \A c \in rows : r <= c
          IN Some([block_id |-> b,
                   public_input |-> task_tbl[b].public_input,
                   proof |-> task_tbl[b].proof,
                   public_data |-> l2b_tbl[b].raw_public_data,
                   aux_data |-> l2b_tbl[b].public_data_aux])
\* Variant of fetch_latest_row: rows that do not transform are passed over
\* (skip and continue).
fetch_latest_row_skip(start_id, task_tbl, l2b_tbl) ==
  LET start == unwrap_or(start_id, NO_START)
      row(b) == [block_id |-> b,
                 public_input |-> task_tbl[b].public_input,
                 proof |-> task_tbl[b].proof,
                 public_data |-> l2b_tbl[b].raw_public_data,
                 aux_data |-> l2b_tbl[b].public_data_aux]
      rows == {b \in DOMAIN task_tbl : /\ qualifies(b, start, task_tbl, l2b_tbl)
                                       /\ try_from(row(b)).ok}
  IN IF rows = {} THEN None
     ELSE Some(row(CHOOSE r \in rows : \A c \in rows : r <= c))
\* Variant of fetch_latest_row: the query is not bounded by the cursor.
fetch_latest_row_no_cursor(start_id, task_tbl, l2b_tbl) ==
  LET rows == {b \in DOMAIN task_tbl : qualifies(b, NO_START, task_tbl, l2b_tbl)}
  IN IF rows = {} THEN None
     ELSE LET b == CHOOSE r \in rows : \A c \in rows : r <= c
          IN Some([block_id |-> b,
                   public_input |-> task_tbl[b].public_input,
                   proof |-> task_tbl[b].proof,
                   public_data |-> l2b_tbl[b].raw_public_data,
                   aux_data |-> l2b_tbl[b].public_data_aux])
\* The query of fetch_latest: `order by t.block_id limit 1` over the rows that
\* qualify, as the Option<Task> of fetch_optional.
fetch_latest_row(start_id, task_tbl, l2b_tbl) ==
  LET start == unwrap_or(start_id, NO_START)
      rows == {b \in DOMAIN task_tbl : qualifies(b, start, task_tbl, l2b_tbl)}
  IN IF rows = {} THEN None
     ELSE LET b == CHOOSE r \in rows : \A c \in rows : r <= c
          IN Some([block_id |-> b,
                   public_input |-> task_tbl[b].public_input,
                   proof |-> task_tbl[b].proof,
                   public_data |-> l2b_tbl[b].raw_public_data,
                   aux_data |-> l2b_tbl[b].public_data_aux])

\* Variant of fetch_latest_transform: a row that does not transform counts
\* as no row.
fetch_latest_transform_swallow(row) ==
  IF row.some
    THEN LET r == try_from(row.v) IN IF r.ok THEN Ok(Some(r.v)) ELSE Ok(None)
    ELSE Ok(None)
\* The match of lines 127-130 on the row: Result<Option<SubmitBlockArgs>>.
fetch_latest_transform(row) ==
  IF row.some
    THEN LET r == try_from(row.v) IN IF r.ok THEN Ok(Some(r.v)) ELSE r
    ELSE Ok(None)

\* ----------------------------------------------------------- the channel
\* Variant of try_send: the new message is put at the head of the queue.
try_send_lifo(queue, alive, msg) ==
  IF ~alive THEN [res |-> Err("sending on a disconnected channel"), queue |-> queue]
  ELSE IF Len(queue) >= ChanCap THEN [res |-> Err("sending on a full channel"), queue |-> queue]
  ELSE [res |-> Ok("sent"), queue |-> <<msg>> \o queue]
\* Sender::try_send on a bounded channel: Disconnected when the receiver is
\* gone, Full when the queue holds its capacity, queued otherwise.
try_send(queue, alive, msg) ==
  IF ~alive THEN [res |-> Err("sending on a disconnected channel"), queue |-> queue]
  ELSE IF Len(queue) >= ChanCap THEN [res |-> Err("sending on a full channel"), queue |-> queue]
  ELSE [res |-> Ok("sent"), queue |-> Append(queue, msg)]

SubmitBlock(args) == [call |-> "SubmitBlock", args |-> args]

\* ------------------------------------------------------ run_inner, 157-161
\* Variant of run_inner_dispatch: the cursor is assigned before try_send.
run_inner_dispatch_cursor_first(cur, queue, alive, fetched) ==
  IF ~fetched.ok THEN [ret |-> fetched, cursor |-> cur, queue |-> queue]
  ELSE IF ~fetched.v.some THEN [ret |-> Ok("none"), cursor |-> cur, queue |-> queue]
  ELSE LET args == fetched.v.v
           last_id == args.block_id
           s == try_send(queue, alive, SubmitBlock(args))
       IN IF ~s.res.ok THEN [ret |-> s.res, cursor |-> Some(last_id), queue |-> queue]
          ELSE [ret |-> Ok("sent"), cursor |-> Some(last_id), queue |-> s.queue]
\* What lines 157-161 do with the result of fetch_latest: the returned error
\* (Ok when the cycle goes on to the commit), the cursor and the queue.
run_inner_dispatch(cur, queue, alive, fetched) ==
  IF ~fetched.ok THEN [ret |-> fetched, cursor |-> cur, queue |-> queue]
  ELSE IF ~fetched.v.some THEN [ret |-> Ok("none"), cursor |-> cur, queue |-> queue]
  ELSE LET args == fetched.v.v
           last_id == args.block_id
           s == try_send(queue, alive, SubmitBlock(args))
       IN IF ~s.res.ok THEN [ret |-> s.res, cursor |-> cur, queue |-> queue]
          ELSE [ret |-> Ok("sent"), cursor |-> Some(last_id), queue |-> s.queue]

\* ------------------------------------------------------------------- Init
NoTask == [block_id |-> -1, public_input |-> GoodPayload, proof |-> GoodPayload,
           public_data |-> "pd", aux_data |-> None]

FetcherInit ==
  /\ last_block_id = None
  /\ tx = <<>>
  /\ rx_alive = TRUE
  /\ pc = "tick"
  /\ candidate = None
  /\ outcome = None
  /\ sent = <<>>
  /\ pre_cursor = None
  /\ received = <<>>
  /\ open_tx = 0

\* main of tele_out before its select: no stop signal yet, both tasks running.
SupervisorInit ==
  /\ main = "select"
  /\ stop_signals = 0
  /\ fetcher_done = FALSE
  /\ sender_done = FALSE
  /\ early_return = FALSE

EncIdle == encIn = NoTask /\ encOut = None

\* The tables start empty; the data each block's rows will carry is drawn
\* here, at most one block carrying other than plain data.
Init ==
  /\ \E d \in [Ids -> RowData] :
       /\ Cardinality({b \in Ids : d[b] # PlainData}) <= 1
       /\ task = [b \in Ids |-> TaskRow("none", d[b])]
       /\ l2_block = [b \in Ids |-> BlockRow("none", d[b])]
  /\ FetcherInit
  /\ SupervisorInit
  /\ EncIdle

\* ------------------------------------------------- the fetch loop (142-165)
storage == <<task, l2_block>>
enc == <<encIn, encOut>>
sup == <<main, stop_signals, fetcher_done, sender_done, early_return>>

\* Variant of run_loop_next: an Err of run_inner ends the loop.
run_loop_next_break(res) == IF res.ok THEN "tick" ELSE "returned"
\* run, lines 144-151: whatever run_inner returned, its Err is logged and the
\* loop goes on to the next timer tick.
run_loop_next(res) == "tick"

\* Variant of run_tick: each tick starts a cycle of its own, whether or not
\* the one before has ended.
run_tick_spawning ==
  /\ pc \in {"tick", "fetch", "commit"}
  /\ pc' = "begin"
  /\ candidate' = None
  /\ outcome' = None
  /\ pre_cursor' = last_block_id
  /\ UNCHANGED <<storage, last_block_id, tx, rx_alive, sent, received, open_tx, enc, sup>>
\* run, line 145: timer.tick().await returns and the next cycle starts.
run_tick ==
  /\ pc = "tick"
  /\ pc' = "begin"
  /\ candidate' = None
  /\ outcome' = None
  /\ pre_cursor' = last_block_id
  /\ UNCHANGED <<storage, last_block_id, tx, rx_alive, sent, received, open_tx, enc, sup>>

\* run_inner, line 155: connpool.begin().await?
run_inner_begin ==
  /\ pc = "begin"
  /\ \/ pc' = "fetch" /\ open_tx' = open_tx + 1 /\ UNCHANGED outcome
     \/ /\ pc' = run_loop_next(Err("begin"))
        /\ outcome' = Some(Err("begin"))
        /\ UNCHANGED open_tx
  /\ UNCHANGED <<storage, last_block_id, tx, rx_alive, candidate, sent, pre_cursor, received, enc, sup>>

\* Variant of run_inner_fetch: a blocking send, which waits while the channel
\* is full.
run_inner_fetch_blocking ==
  /\ pc = "fetch"
  /\ \/ /\ pc' = run_loop_next(Err("query"))
        /\ outcome' = Some(Err("query"))
        /\ open_tx' = open_tx - 1
        /\ UNCHANGED <<last_block_id, tx, candidate, sent>>
     \/ LET row == fetch_latest_row(last_block_id, task, l2_block)
            fetched == fetch_latest_transform(row)
            d == run_inner_dispatch(last_block_id, tx, rx_alive, fetched)
        IN /\ ~(fetched.ok /\ fetched.v.some /\ rx_alive /\ Len(tx) >= ChanCap)
           /\ candidate' = row
           /\ last_block_id' = d.cursor
           /\ tx' = d.queue
           /\ sent' = IF Len(d.queue) > Len(tx) THEN Append(sent, d.queue[Len(d.queue)].args.block_id) ELSE sent
           /\ IF d.ret.ok
                THEN pc' = "commit" /\ outcome' = outcome /\ open_tx' = open_tx
                ELSE /\ pc' = run_loop_next(d.ret)
                     /\ outcome' = Some(d.ret)
                     /\ open_tx' = open_tx - 1
  /\ UNCHANGED <<storage, rx_alive, pre_cursor, received, enc, sup>>
\* run_inner, lines 157-161: the query either fails or returns its row, which
\* is transformed and dispatched.
run_inner_fetch ==
  /\ pc = "fetch"
  /\ \/ /\ pc' = run_loop_next(Err("query"))
        /\ outcome' = Some(Err("query"))
        /\ open_tx' = open_tx - 1
        /\ UNCHANGED <<last_block_id, tx, candidate, sent>>
     \/ LET row == fetch_latest_row(last_block_id, task, l2_block)
            d == run_inner_dispatch(last_block_id, tx, rx_alive, fetch_latest_transform(row))
        IN /\ candidate' = row
           /\ last_block_id' = d.cursor
           /\ tx' = d.queue
           /\ sent' = IF Len(d.queue) > Len(tx) THEN Append(sent, d.queue[Len(d.queue)].args.block_id) ELSE sent
           /\ IF d.ret.ok
                THEN pc' = "commit" /\ outcome' = outcome /\ open_tx' = open_tx
                ELSE /\ pc' = run_loop_next(d.ret)
                     /\ outcome' = Some(d.ret)
                     /\ open_tx' = open_tx - 1
  /\ UNCHANGED <<storage, rx_alive, pre_cursor, received, enc, sup>>

\* Variant of run_inner_commit: a failed commit puts the cursor back.
run_inner_commit_rollback ==
  /\ pc = "commit"
  /\ open_tx' = open_tx - 1
  /\ \/ outcome' = Some(Ok("done")) /\ pc' = run_loop_next(Ok("done")) /\ UNCHANGED last_block_id
     \/ outcome' = Some(Err("commit")) /\ pc' = run_loop_next(Err("commit")) /\ last_block_id' = pre_cursor
  /\ UNCHANGED <<storage, tx, rx_alive, candidate, sent, pre_cursor, received, enc, sup>>
\* run_inner, lines 163-164: db_tx.commit().await?; Ok(())
run_inner_commit ==
  /\ pc = "commit"
  /\ open_tx' = open_tx - 1
  /\ \/ outcome' = Some(Ok("done")) /\ pc' = run_loop_next(Ok("done"))
     \/ outcome' = Some(Err("commit")) /\ pc' = run_loop_next(Err("commit"))
  /\ UNCHANGED <<storage, last_block_id, tx, rx_alive, candidate, sent, pre_cursor, received, enc, sup>>

\* ----------------------------------------------------------- environment
fetcher == <<last_block_id, pc, candidate, outcome, sent, pre_cursor, open_tx>>

\* The upstream prover inserts the task row of a block, not yet proved.
prover_insert ==
  \E b \in Ids :
    /\ task[b].status = "none"
    /\ task' = [task EXCEPT ![b].status = "inited"]
    /\ UNCHANGED <<l2_block, fetcher, tx, rx_alive, received, enc, sup>>

\* The upstream prover stores the proof: the task row becomes 'proved'.
prover_prove ==
  \E b \in Ids :
    /\ task[b].status = "inited"
    /\ task' = [task EXCEPT ![b].status = "proved"]
    /\ UNCHANGED <<l2_block, fetcher, tx, rx_alive, received, enc, sup>>

\* The rollup writes the l2block row of a block, 'uncommited'.
block_insert ==
  \E b \in Ids :
    /\ l2_block[b].status = "none"
    /\ l2_block' = [l2_block EXCEPT ![b].status = "uncommited"]
    /\ UNCHANGED <<task, fetcher, tx, rx_alive, received, enc, sup>>

\* The submission actor marks a block it has submitted as no longer
\* 'uncommited'.
block_commit ==
  \E b \in Ids :
    /\ l2_block[b].status = "uncommited"
    /\ l2_block' = [l2_block EXCEPT ![b].status = "verified"]
    /\ UNCHANGED <<task, fetcher, tx, rx_alive, received, enc, sup>>

\* The submission actor takes the oldest call off the channel.
actor_recv ==
  /\ rx_alive
  /\ tx # <<>>
  /\ tx' = Tail(tx)
  /\ received' = Append(received, Head(tx).args.block_id)
  /\ UNCHANGED <<storage, fetcher, rx_alive, enc, sup>>

\* The Receiver is dropped: the channel is disconnected from then on.
actor_drop ==
  /\ rx_alive
  /\ rx_alive' = FALSE
  /\ UNCHANGED <<storage, fetcher, tx, received, enc, sup>>

Next ==
  \/ run_tick
  \/ run_inner_begin
  \/ run_inner_fetch
  \/ run_inner_commit
  \/ prover_insert
  \/ prover_prove
  \/ block_insert
  \/ block_commit
  \/ actor_recv
  \/ actor_drop

Spec == Init /\ [][Next]_vars

\* ------------------------------------------------- SpecEnc: try_from alone
\* The elements a deposit array is drawn from: u64 numbers in and out of the
\* 16-bit range, a negative number, a float and a string.
DepositElems ==
  { JNum("pos", 0), JNum("pos", 1), JNum("pos", 256), JNum("pos", 65535),
    JNum("pos", 70000), JNum("neg", -1), JNum("float", 1), JStr }

SeqsUpTo(S, n) == UNION {[1..k -> S] : k \in 0..n}

AuxDocs ==
  {None, Some(JNull), Some(JObj([other |-> JNull])),
   Some(JObj([deposit |-> JStr])), Some(JObj([deposit |-> JNum("pos", 5)]))}
  \cup {Some(JObj([deposit |-> JArr(a)])) : a \in SeqsUpTo(DepositElems, MaxDeposits)}

EncInputs ==
  {[block_id |-> 0, public_input |-> pi, proof |-> pr, public_data |-> "pd", aux_data |-> a] :
     pi \in {GoodPayload, BadPayload}, pr \in {GoodPayload, BadPayload}, a \in AuxDocs}

InitEnc ==
  /\ task = [b \in Ids |-> TaskRow("none", PlainData)]
  /\ l2_block = [b \in Ids |-> BlockRow("none", PlainData)]
  /\ FetcherInit
  /\ SupervisorInit
  /\ encIn \in EncInputs
  /\ encOut = None

\* SubmitBlockArgs::try_from(encIn)
enc_try_from ==
  /\ ~encOut.some
  /\ encOut' = Some(try_from(encIn))
  /\ UNCHANGED <<storage, fetcher, tx, rx_alive, received, encIn, sup>>

NextEnc == enc_try_from

SpecEnc == InitEnc /\ [][NextEnc]_vars

\* --------------------------------------- SpecA: the storage of scenario A
\* l2block rows 'uncommited' for ids 1..4, task rows 'proved' for ids 1, 2
\* and 4; block 3 has either no task row at all or a task row that is not
\* yet proved.  The storage does not change.
ScenarioIds == 1..4

InitA ==
  /\ \E st3 \in {"none", "inited"} :
       task = [b \in ScenarioIds |-> TaskRow(IF b = 3 THEN st3 ELSE "proved", PlainData)]
  /\ l2_block = [b \in ScenarioIds |-> BlockRow("uncommited", PlainData)]
  /\ FetcherInit
  /\ SupervisorInit
  /\ EncIdle

NextA ==
  \/ run_tick
  \/ run_inner_begin
  \/ run_inner_fetch
  \/ run_inner_commit
  \/ actor_recv
  \/ actor_drop

SpecA == InitA /\ [][NextA]_vars

\* SpecA with the fetch loop scheduled fairly: the timer fires, the storage
\* answers begin, query and commit (with a result or an error), and nothing
\* else in a cycle waits.  The submission actor is under no obligation.
SpecAFair ==
  /\ SpecA
  /\ WF_vars(run_tick)
  /\ WF_vars(run_inner_begin)
  /\ WF_vars(run_inner_fetch)
  /\ WF_vars(run_inner_commit)

\* SpecAFair with a submission actor that takes a call whenever one stays
\* queued.
SpecAProgress == SpecAFair /\ WF_vars(actor_recv)

\* ------------------------------------------------ the supervisor (tele_out)
\* The ctrl-c handler, lines 21-24: each interrupt sends one stop signal on
\* the channel of capacity 256; the handler is installed for as long as the
\* process lives.
ctrlc_handler ==
  /\ main = "select"
  /\ stop_signals < MaxStops
  /\ stop_signals' = stop_signals + 1
  /\ UNCHANGED <<storage, fetcher, tx, rx_alive, received, enc,
                 main, fetcher_done, sender_done, early_return>>

\* fetcher_task_handle completes: the task run_task_fetcher started has ended.
fetcher_handle_completes ==
  /\ main = "select"
  /\ ~fetcher_done
  /\ fetcher_done' = TRUE
  /\ early_return' = (early_return \/ stop_signals = 0)
  /\ UNCHANGED <<storage, fetcher, tx, rx_alive, received, enc,
                 main, stop_signals, sender_done>>

\* eth_sender_task_handle completes: the task run_eth_sender started has ended.
sender_handle_completes ==
  /\ main = "select"
  /\ ~sender_done
  /\ sender_done' = TRUE
  /\ early_return' = (early_return \/ stop_signals = 0)
  /\ UNCHANGED <<storage, fetcher, tx, rx_alive, received, enc,
                 main, stop_signals, fetcher_done>>

\* Variant of sup_select: the select has no branch for the stop signal.
sup_select_no_stop ==
  /\ main = "select"
  /\ (fetcher_done \/ sender_done)
  /\ main' = "panicked"
  /\ UNCHANGED <<storage, fetcher, tx, rx_alive, received, enc,
                 stop_signals, fetcher_done, sender_done, early_return>>
\* main, lines 34-46: tokio::select! over the two handles and the stop-signal
\* receiver.  Of the branches that are ready it runs one, chosen at random:
\* a completed handle panics, a stop signal is taken off its channel and main
\* returns Ok(()).
sup_select ==
  /\ main = "select"
  /\ \/ /\ fetcher_done
        /\ main' = "panicked"
        /\ UNCHANGED stop_signals
     \/ /\ sender_done
        /\ main' = "panicked"
        /\ UNCHANGED stop_signals
     \/ /\ stop_signals > 0
        /\ main' = "exited"
        /\ stop_signals' = stop_signals - 1
  /\ UNCHANGED <<storage, fetcher, tx, rx_alive, received, enc,
                 fetcher_done, sender_done, early_return>>

\* The fetch loop runs as a task of the runtime main owns (#[tokio::main]):
\* it takes steps while main is at its select and the task has not ended.
sup_fetcher_step ==
  /\ main = "select"
  /\ ~fetcher_done
  /\ \/ run_tick
     \/ run_inner_begin
     \/ run_inner_fetch
     \/ run_inner_commit

\* The submission actor, likewise a task of that runtime.
sup_actor_step ==
  /\ main = "select"
  /\ ~sender_done
  /\ actor_recv

InitSup == InitA

NextSup ==
  \/ sup_fetcher_step
  \/ sup_actor_step
  \/ ctrlc_handler
  \/ fetcher_handle_completes
  \/ sender_handle_completes
  \/ sup_select

SpecSup == InitSup /\ [][NextSup]_vars

\* SpecSup with main polled fairly: the runtime polls main once one of the
\* branches of its select is ready.
SpecSupFair == SpecSup /\ WF_vars(sup_select)

\* ================================================================ claims
\* ------------------------------------------- predicates the claims use
\* The block ids of the calls queued in the channel, oldest first.
Queued == [i \in 1..Len(tx) |-> tx[i].args.block_id]

\* s is strictly ascending.
IsAscending(s) == \A i, j \in 1..Len(s) : i < j => s[i] < s[j]

\* Block b has a task row that is not 'proved'.
Pending(b) == task[b].status \notin {"none", "proved"}

\* Block b has a 'proved' task row and an 'uncommited' l2block row.
Ready(b) == task[b].status = "proved" /\ l2_block[b].status = "uncommited"

\* Block b lies above the cursor (any block does while it is absent).
AboveCursor(b) == last_block_id.some => b > last_block_id.v

\* The step is a run_inner_fetch whose query returned (a row or none).
QueryRan == pc = "fetch" /\ pc' # "fetch" /\ outcome' # Some(Err("query"))

\* Scenario A's outcome: the sends are 1 then 2, and a cycle that reaches its
\* commit has sent 1 from an absent cursor, 2 from cursor 1, and has selected
\* no row from cursor 2.
ScenarioA_Cycles ==
  /\ sent \in {<<>>, <<1>>, <<1, 2>>}
  /\ pc = "commit" =>
       /\ pre_cursor = None =>
            candidate.some /\ candidate.v.block_id = 1 /\ sent = <<1>>
       /\ pre_cursor = Some(1) =>
            candidate.some /\ candidate.v.block_id = 2 /\ sent = <<1, 2>>
       /\ pre_cursor = Some(2) => candidate = None /\ sent = <<1, 2>>

\* public_input or proof of row t does not deserialize.
BadBytes(t) == t.public_input # GoodPayload \/ t.proof # GoodPayload

\* e is a JSON number that is a non-negative integer.
NonNegInteger(e) == e.t = "num" /\ e.k = "pos"

\* The document is present and has no deposit field, or a deposit that is no
\* array, or an element that is no non-negative integer.
AuxMalformed(aux) ==
  /\ aux.some
  /\ \/ aux.v.t # "obj"
     \/ "deposit" \notin DOMAIN aux.v.m
     \/ aux.v.m.deposit.t # "arr"
     \/ \E i \in DOMAIN aux.v.m.deposit.a : ~NonNegInteger(aux.v.m.deposit.a[i])

\* Row t has nothing that makes the transform fail.
Transforms(t) == ~BadBytes(t) /\ ~AuxMalformed(t.aux_data)

\* The channel is disconnected or holds its capacity.
ChannelRefuses == ~rx_alive \/ Len(tx) >= ChanCap

\* o is the Err of a cycle.
IsErr(o) == o.some /\ ~o.v.ok

\* o is the error of a refused try_send.
SendError(o) ==
  o \in {Some(Err("sending on a full channel")), Some(Err("sending on a disconnected channel"))}

\* The document is a well-formed deposit array with an element above 65535.
OutOfRangeDeposit(aux) ==
  /\ aux.some /\ ~AuxMalformed(aux)
  /\ \E i \in DOMAIN aux.v.m.deposit.a : aux.v.m.deposit.a[i].n > 65535

\* The document is a well-formed deposit array with every element in 0..65535.
InRangeDeposits(aux) ==
  /\ aux.some /\ ~AuxMalformed(aux)
  /\ \A i \in DOMAIN aux.v.m.deposit.a : aux.v.m.deposit.a[i].n \in 0..65535

\* The numbers of the deposit array.
DepositValues(aux) == [i \in DOMAIN aux.v.m.deposit.a |-> aux.v.m.deposit.a[i].n]

\* Block b is what the query has to select from: proved, uncommitted, above
\* the cursor and below every task row that is not 'proved'.
Eligible(b) ==
  /\ Ready(b)
  /\ AboveCursor(b)
  /\ \A c \in DOMAIN task : Pending(c) => b < c

\* Block b is the smallest block the query has to select from, and its row
\* does not transform.
PoisonHead(b) ==
  /\ Eligible(b)
  /\ \A c \in DOMAIN task : Eligible(c) => b <= c
  /\ ~Transforms([public_input |-> task[b].public_input,
                  proof |-> task[b].proof,
                  aux_data |-> l2_block[b].public_data_aux])

\* Block b has been sent.
Dispatched(b) == \E i \in 1..Len(sent) : sent[i] = b

\* The sends of the cycle in progress: those above the cursor it started with.
SentThisCycle == {i \in 1..Len(sent) : pre_cursor.some => sent[i] > pre_cursor.v}

\* The last cycle ended with a storage error or a transform error.
StorageOrTransformError == IsErr(outcome) /\ ~SendError(outcome)

\* The step is a run_inner_commit.
CommitRan == pc = "commit" /\ pc' # "commit"

\* The 16-bit values of a byte sequence read pairwise, high byte first.
DecodePairs(bytes) == [i \in 1..(Len(bytes) \div 2) |-> bytes[2 * i - 1] * 256 + bytes[2 * i]]

\* C1: the block ids sent to the channel are strictly ascending, and the
\* cursor is absent until the first send and from then on equals the block
\* id of the last send.
C1_AscendingDispatch ==
  /\ IsAscending(sent)
  /\ last_block_id = (IF sent = <<>> THEN None ELSE Some(sent[Len(sent)]))

\* C1 witness: two cycles have sent, the second a larger id than the first.
C1_Witness == Len(sent) = 2 /\ sent[1] < sent[2] /\ pc = "commit"

\* C2: a cycle that sends a block sends one below every task row that is not
\* 'proved' in the storage the cycle reads; and when no such row exists
\* nothing caps the selection: a cycle whose query succeeds selects a row
\* whenever some block above the cursor is proved and uncommitted.
C2_Ceiling ==
  [][ /\ Len(sent') > Len(sent) =>
           \A b \in DOMAIN task : Pending(b) => sent'[Len(sent')] < b
      /\ (QueryRan /\ ~(\E b \in DOMAIN task : Pending(b))
                   /\ (\E b \in DOMAIN task : Ready(b) /\ AboveCursor(b)))
           => candidate'.some
    ]_vars

\* C2 witness: a cycle has selected nothing although block 1 is proved and
\* uncommitted, the task row of block 0 being not proved.
C2_Witness ==
  /\ pc = "commit" /\ candidate = None /\ sent = <<>>
  /\ Pending(0) /\ Ready(1)

\* C3, as amended: in scenario A with a task row for block 3 that is not
\* 'proved', the blocks sent are 1, then 2, then nothing: a cycle that
\* reaches its commit from an absent cursor has sent block 1, from cursor 1
\* block 2, and from cursor 2 it has selected no row; block 4 is never sent.
C3_ScenarioA_Pending3 == task[3].status = "inited" => ScenarioA_Cycles

\* C3 witness: the third cycle, started at cursor 2, found no row although
\* block 4 is proved and uncommitted.
C3_Witness ==
  /\ task[3].status = "inited" /\ Ready(4)
  /\ pc = "commit" /\ pre_cursor = Some(2) /\ candidate = None /\ sent = <<1, 2>>

\* C3 as stated: the same with no task row at all for block 3.
C3_ScenarioA_NoRow3 == task[3].status = "none" => ScenarioA_Cycles

\* C4: when the query returned a row that transforms and the channel is full
\* or disconnected, the cycle ends with an error, the cursor, the channel and
\* the log of sends are as before the cycle, and the query run on the storage
\* as it is, with the cursor as it is, returns the same row again.
C4_SendFailure ==
  [][ (QueryRan /\ candidate'.some /\ Transforms(candidate'.v) /\ ChannelRefuses) =>
        /\ pc' = "tick"
        /\ SendError(outcome')
        /\ last_block_id' = last_block_id
        /\ last_block_id' = pre_cursor
        /\ tx' = tx
        /\ sent' = sent
        /\ fetch_latest_row(last_block_id', task', l2_block') = candidate'
    ]_vars

\* C4 witness: a cycle has ended on a full channel with its cursor unmoved.
C4_Witness ==
  /\ pc = "tick" /\ candidate.some
  /\ outcome = Some(Err("sending on a full channel"))
  /\ last_block_id = pre_cursor

\* C5 as stated: after a cycle that ended with a storage error (begin, query
\* or commit) the cursor is the one the cycle started with.
C5_StorageErrorKeepsCursor ==
  outcome \in {Some(Err("begin")), Some(Err("query")), Some(Err("commit"))}
    => last_block_id = pre_cursor

\* C5, as amended: after a cycle that failed to begin its transaction or to
\* run its query the cursor is the one the cycle started with; after a cycle
\* whose commit failed it is so only if the cycle selected no row, and
\* otherwise the cursor is the block id the cycle has already sent.
C5_StorageErrorCursor ==
  /\ outcome \in {Some(Err("begin")), Some(Err("query"))} =>
       last_block_id = pre_cursor /\ candidate = None
  /\ outcome = Some(Err("commit")) =>
       IF candidate.some
         THEN /\ last_block_id = Some(candidate.v.block_id)
              /\ sent # <<>> /\ sent[Len(sent)] = candidate.v.block_id
         ELSE last_block_id = pre_cursor

\* C5 witness: the commit of a cycle that had sent its block failed.
C5_Witness ==
  /\ pc = "tick" /\ outcome = Some(Err("commit")) /\ candidate.some
  /\ last_block_id # pre_cursor

\* C6: when the row the query returned does not transform (public_input or
\* proof does not deserialize, or the auxiliary document is malformed), the
\* cycle ends with an error and the channel, the log of sends and the cursor
\* are as before.
C6_TransformFailure ==
  [][ (QueryRan /\ candidate'.some /\ ~Transforms(candidate'.v)) =>
        /\ pc' = "tick"
        /\ IsErr(outcome')
        /\ ~SendError(outcome')
        /\ tx' = tx
        /\ sent' = sent
        /\ last_block_id' = last_block_id
    ]_vars

\* C6 witness: cycles have ended on a row whose auxiliary document has no
\* deposit field.
C6_Witness ==
  /\ pc = "tick" /\ candidate.some /\ AuxMalformed(candidate.v.aux_data)
  /\ outcome = Some(Err("no deposit field"))
  /\ last_block_id = pre_cursor

\* C7 as stated: a cycle whose row has a deposit value above 65535 ends with
\* a malformed-aux-data error and leaves the cursor as it was.
C7_OutOfRangeDepositFails ==
  (candidate.some /\ OutOfRangeDeposit(candidate.v.aux_data)) =>
     /\ pc = "tick"
     /\ IsErr(outcome)
     /\ last_block_id = pre_cursor
     /\ \A i \in 1..Len(sent) : sent[i] # candidate.v.block_id

\* C8: try_from returns an error whenever the auxiliary document is present
\* and has no deposit field, or a deposit field that is no array, or an
\* array element that is no non-negative integer.
C8_MalformedAuxIsError ==
  (encOut.some /\ AuxMalformed(encIn.aux_data)) => ~encOut.v.ok

\* C8 witness: try_from has refused a deposit array holding a negative number.
C8_Witness ==
  /\ encOut.some /\ ~encOut.v.ok
  /\ encIn.aux_data = Some(JObj([deposit |-> JArr(<<JNum("pos", 1), JNum("neg", -1)>>)]))
  /\ ~BadBytes(encIn)

\* C9: for a deposit array of n integers in 0..65535 deposit_aux has 2n
\* bytes, the i-th pair being the i-th element high byte first, so that
\* decoding the pairs gives the array back; [1, 65535, 0] gives
\* 00 01 FF FF 00 00.
C9_DepositRoundTrip ==
  (encOut.some /\ ~BadBytes(encIn) /\ InRangeDeposits(encIn.aux_data)) =>
     /\ encOut.v.ok
     /\ LET out == encOut.v.v.deposit_aux
            dep == DepositValues(encIn.aux_data)
        IN /\ Len(out) = 2 * Len(dep)
           /\ \A k \in 1..Len(out) : out[k] \in 0..255
           /\ \A i \in 1..Len(dep) : out[2 * i - 1] = dep[i] \div 256 /\ out[2 * i] = dep[i] % 256
           /\ DecodePairs(out) = dep
           /\ dep = <<1, 65535, 0>> => out = <<0, 1, 255, 255, 0, 0>>

\* C9 witness: [1, 65535, 0] has been encoded.
C9_Witness ==
  /\ encOut.some /\ encOut.v.ok
  /\ InRangeDeposits(encIn.aux_data)
  /\ DepositValues(encIn.aux_data) = <<1, 65535, 0>>
  /\ encOut.v.v.deposit_aux = <<0, 1, 255, 255, 0, 0>>

\* C10: when the row the query returned has no auxiliary document (and its
\* public_input and proof deserialize), the cycle does not end with a
\* transform error: if the channel takes the call, the call carries the empty
\* deposit_aux and the cursor moves to the block; if not, the cycle ends with
\* the send error.
C10_AbsentAux ==
  [][ (QueryRan /\ candidate'.some /\ ~candidate'.v.aux_data.some /\ ~BadBytes(candidate'.v)) =>
        IF ChannelRefuses
          THEN SendError(outcome')
          ELSE /\ pc' = "commit"
               /\ Len(tx') = Len(tx) + 1
               /\ tx'[Len(tx')].call = "SubmitBlock"
               /\ tx'[Len(tx')].args.block_id = candidate'.v.block_id
               /\ tx'[Len(tx')].args.deposit_aux = <<>>
               /\ last_block_id' = Some(candidate'.v.block_id)
    ]_vars

\* C10 witness: a block without auxiliary document is in the channel with
\* the empty deposit_aux.
C10_Witness ==
  /\ pc = "commit" /\ candidate.some /\ ~candidate.v.aux_data.some
  /\ tx # <<>>
  /\ tx[Len(tx)].args.block_id = candidate.v.block_id
  /\ tx[Len(tx)].args.deposit_aux = <<>>

\* C11: a cycle whose query runs on a storage with no eligible row selects
\* nothing and goes on to its commit with the channel, the log of sends and
\* the cursor untouched; its commit ends the cycle with the cursor still the
\* one the cycle started with, nothing sent, and Ok unless the commit itself
\* fails.
C11_NoEligibleRowNoOp ==
  [][ /\ (QueryRan /\ ~(\E b \in DOMAIN task : Eligible(b))) =>
           /\ candidate' = None
           /\ pc' = "commit"
           /\ tx' = tx /\ sent' = sent
           /\ last_block_id' = last_block_id
      /\ (CommitRan /\ candidate = None) =>
           /\ outcome' \in {Some(Ok("done")), Some(Err("commit"))}
           /\ tx' = tx /\ sent' = sent
           /\ last_block_id' = last_block_id
           /\ last_block_id' = pre_cursor
    ]_vars

\* C11 witness: after a send, a cycle has found no eligible row and has
\* returned Ok with the cursor where it was, the sent block still uncommitted.
C11_Witness ==
  /\ pc = "tick" /\ outcome = Some(Ok("done")) /\ candidate = None
  /\ sent # <<>> /\ last_block_id = pre_cursor
  /\ \E b \in DOMAIN task : Ready(b)
  /\ ~(\E b \in DOMAIN task : Eligible(b))

\* C12: the fetch loop is always at one of its four places and never has
\* returned; a cycle that ended with an error (storage, deserialization,
\* encoding or dispatch, the disconnected channel included) leaves the loop
\* waiting for its timer with the next tick able to fire, and the next step
\* the loop takes from there starts another cycle.
C12_ErrorsDoNotEndLoop ==
  /\ [](/\ pc \in {"tick", "begin", "fetch", "commit"}
        /\ IsErr(outcome) => (pc = "tick" /\ ENABLED run_tick))
  /\ [][ (IsErr(outcome) /\ pc' # pc) => (pc' = "begin" /\ outcome' = None) ]_vars

\* C12 witness: a cycle has ended on the disconnected channel and the loop
\* waits for its next tick.
C12_Witness ==
  /\ pc = "tick"
  /\ outcome = Some(Err("sending on a disconnected channel"))
  /\ ENABLED run_tick

\* C13: a cycle never waits on the channel: whenever the loop is at its
\* dispatch it leaves it, back at the timer or on to the commit, whether or
\* not the submission actor ever takes a call; and with a row to send and
\* the channel full the refusal is available at once, and the step that sends
\* ends the cycle with the send error and the channel as it was.
C13_NeverWaitsOnChannel ==
  /\ [](LET row == fetch_latest_row(last_block_id, task, l2_block)
        IN (/\ pc = "fetch" /\ rx_alive /\ Len(tx) >= ChanCap
            /\ row.some /\ Transforms(row.v)) =>
             ENABLED (/\ run_inner_fetch
                      /\ outcome' = Some(Err("sending on a full channel"))))
  /\ (pc = "fetch") ~> (pc \in {"tick", "commit"})
  /\ (pc = "fetch" /\ Len(tx) >= ChanCap) ~> (pc = "tick")
  /\ [][ (QueryRan /\ candidate'.some /\ Transforms(candidate'.v)
                   /\ rx_alive /\ Len(tx) >= ChanCap) =>
           /\ pc' = "tick"
           /\ outcome' = Some(Err("sending on a full channel"))
           /\ tx' = tx
       ]_vars

\* C13 witness: with the channel full and the actor having taken nothing, a
\* cycle has ended with the send error and the loop is back at its timer.
C13_Witness ==
  /\ pc = "tick" /\ outcome = Some(Err("sending on a full channel"))
  /\ Len(tx) = ChanCap /\ received = <<>> /\ rx_alive

\* C14: a task handle that completes before any stop signal ends the process
\* with a panic: main never returns Ok(()) after a handle completed while no
\* stop signal had been sent.
C14_LoopReturnPanics == main = "exited" => ~early_return

C16_FifoAscending ==
  /\ received \o Queued = sent
  /\ IsAscending(received)
  /\ IsAscending(received \o Queued)

\* C16 witness: the actor has taken the first call while the second was
\* already queued behind it.
C16_Witness ==
  /\ received = <<0>> /\ Queued = <<1>> /\ sent = <<0, 1>>
  /\ ENABLED actor_recv

\* C17: cycles do not overlap: the fetch loop holds at most one open storage
\* transaction, it holds one exactly while a cycle is between its begin and
\* its end, and a cycle starts only from the timer, with the transaction of
\* the cycle before closed.
C17_CyclesSequential ==
  /\ [](/\ open_tx \in {0, 1}
        /\ open_tx = 1 <=> pc \in {"fetch", "commit"})
  /\ [][ (pc' = "begin" /\ pc # "begin") => (pc = "tick" /\ open_tx = 0) ]_vars
  /\ [][ open_tx' > open_tx => (pc = "begin" /\ open_tx = 0) ]_vars

\* C17 witness: a cycle has sent and ended, and the cycle after it has its
\* transaction open.
C17_Witness ==
  /\ Len(sent) = 1 /\ pre_cursor = Some(sent[1])
  /\ pc = "fetch" /\ open_tx = 1

\* C18: while the smallest eligible block above the cursor does not
\* transform, no step moves the cursor or sends anything, whatever larger
\* blocks are eligible, and every cycle whose query returns selects that
\* block and ends with the transform's error.
C18_PoisonBlock ==
  [][ \A b \in DOMAIN task : PoisonHead(b) =>
        /\ last_block_id' = last_block_id
        /\ sent' = sent
        /\ QueryRan =>
             /\ candidate'.some /\ candidate'.v.block_id = b
             /\ pc' = "tick"
             /\ IsErr(outcome') /\ ~SendError(outcome')
             /\ tx' = tx
    ]_vars

\* C18 witness: a cycle has failed on block 0, which still heads the
\* selection, with block 1 eligible behind it and the channel empty; nothing
\* has been sent.
C18_Witness ==
  /\ PoisonHead(0) /\ Eligible(1)
  /\ pc = "tick" /\ candidate.some /\ candidate.v.block_id = 0 /\ IsErr(outcome)
  /\ sent = <<>> /\ tx = <<>> /\ rx_alive /\ last_block_id = None

\* C19: no block id is sent twice, and a send is of an id above the cursor
\* as it stood before the cycle, which no earlier send carried; a row the
\* query returns is above that cursor as well, so a block at or below the
\* cursor is never selected, eligible or not.
C19_SentAtMostOnce ==
  /\ [](\A i, j \in 1..Len(sent) : i # j => sent[i] # sent[j])
  /\ [](candidate.some => (pre_cursor.some => candidate.v.block_id > pre_cursor.v))
  /\ [][ Len(sent') > Len(sent) =>
           LET b == sent'[Len(sent')]
           IN /\ AboveCursor(b)
              /\ \A i \in 1..Len(sent) : sent[i] # b
              /\ Ready(b)
       ]_vars

\* C19 witness: block 1 was sent and is still 'uncommited', block 0 became
\* proved and uncommitted only afterwards, and a cycle started with the
\* cursor at 1 has selected nothing.
C19_Witness ==
  /\ sent = <<1>> /\ last_block_id = Some(1) /\ pre_cursor = Some(1)
  /\ Ready(1) /\ Ready(0)
  /\ pc = "commit" /\ candidate = None

\* C20: with the storage frozen, if no cycle ends with a storage or a
\* transform error and the submission actor stays and keeps taking calls,
\* every block that is proved, uncommitted, below the ceiling and above the
\* cursor is eventually sent; a cycle sends at most one block, and a cycle
\* that reaches its commit with a row has sent exactly that row's block.
C20_Progress ==
  /\ ([]~StorageOrTransformError /\ []rx_alive) =>
       \A b \in ScenarioIds : (Eligible(b) ~> Dispatched(b))
  /\ [](Cardinality(SentThisCycle) <= 1)
  /\ []((pc = "commit" /\ candidate.some) =>
          \E i \in SentThisCycle : sent[i] = candidate.v.block_id)

\* C20 witness: all three eligible blocks of the scenario have been sent
\* through a channel of lesser capacity, the actor having taken calls in
\* between, with no cycle's error on the way to the last send.
C20_Witness ==
  /\ sent = <<1, 2, 4>> /\ received # <<>> /\ rx_alive
  /\ Len(sent) > ChanCap
  /\ pc = "commit" /\ candidate.some /\ candidate.v.block_id = 4

====
